---- MODULE Spec2Model ----
(***************************************************************************)
(* Model of src/src/socket_server.cpp: BaseStreamServer (start, stop, the   *)
(* blocking serveForever), the accept/dispatch loop                         *)
(* BaseStreamServerPrivate::serveForever, the per-connection                *)
(* BaseStreamServerPrivate::handleRequest and BaseSslStreamServer's         *)
(* getRequest.                                                              *)
(*                                                                          *)
(* Scheduling is cooperative: a task runs from one suspension point to the  *)
(* next without interleaving.  The suspension points of this file are the   *)
(* blocking accept (lines 248, 316), the TLS handshake (line 319) and the   *)
(* I/O a processRequest override performs.  A loop runner whose pc is not a *)
(* suspension point holds the scheduler (Busy); every other task waits.     *)
(***************************************************************************)
EXTENDS Integers, Sequences, FiniteSets, TLC

\* Number of client connections that arrive at the listening socket.
MaxConns == 2
\* Number of calls of the public operations start(), stop(), serveForever().
MaxCalls == 3
\* Number of BaseRequestHandler objects whose run() is called.
MaxHandlers == 2

\* "serve" is the task spawnWithName("serve", ...) creates (line 196);
\* "main" is the task of a caller of the blocking serveForever() (line 165).
Runners == {"serve", "main"}
Conns == 1..MaxConns
Handlers == 1..MaxHandlers

VARIABLES
    started,    \* Event BaseStreamServer::started (isSet)
    stopped,    \* Event BaseStreamServer::stopped (isSet)
    sock,       \* d->serverSocket: unbound, bound, listening or closed
    pc,         \* per loop runner: position in serveForever()
    req,        \* per loop runner: the local `request` of the loop (0: none)
    tried,      \* per loop runner: what accept() returned to the current
                \* getRequest() call, in order (a connection, or 0 for nothing)
    lastExit,   \* per loop runner: how its last accept loop ended
    conn,       \* per connection: task state, handshake outcome, hooks invoked
    accepted,   \* number of connections accept() has returned
    yielded,    \* connections getRequest() has returned, in order
    secure,     \* the server is a BaseSslStreamServer
    call,       \* the last public call: what it returned when it was made, the
                \* calls it made on the listening socket, whether it spawned "serve"
    runRet,     \* the return value of the blocking serveForever()
    ncalls,     \* number of public calls made
    rh          \* per BaseRequestHandler: position in run() and the hooks called

\* The state of the server, and all of the state.
serverVars == <<started, stopped, sock, pc, req, tried, lastExit, conn, accepted,
                yielded, secure, call, runRet, ncalls>>
vars == <<serverVars, rh>>

\* Positions of serveForever() (lines 121-146) at which the runner is suspended
\* or not running it.
Suspended == {"idle", "spawned", "accept", "handshake"}
\* Positions inside the accept loop, between its first getRequest() and its exit.
InLoop == {"accept", "handshake", "verify", "service"}
\* Positions inside BaseStreamServerPrivate::serveForever().
InServeForever == InLoop \cup {"set_started", "clear_stopped", "close",
                               "clear_started", "set_stopped"}

Busy == \E r \in Runners : pc[r] \notin Suspended

\* CoroutineGroup::has("serve"): the named task is registered from
\* spawnWithName until it finishes.
HasServe == pc["serve"] # "idle"

\* A connection that has not arrived yet.
NoConn == [st |-> "none", hs |-> "none", how |-> "none", exit |-> "none",
           log |-> <<>>]

Init ==
    /\ started = FALSE
    /\ stopped = TRUE
    /\ sock = "unbound"
    /\ pc = [r \in Runners |-> "idle"]
    /\ req = [r \in Runners |-> 0]
    /\ tried = [r \in Runners |-> <<>>]
    /\ lastExit = [r \in Runners |-> "none"]
    /\ conn = [c \in Conns |-> NoConn]
    /\ accepted = 0
    /\ yielded = <<>>
    /\ secure \in BOOLEAN
    /\ call = [op |-> "none", ret |-> "none", ops |-> <<>>, spawn |-> FALSE]
    /\ runRet = "none"
    /\ ncalls = 0
    /\ rh = [h \in Handlers |-> [at |-> "setup", log |-> <<>>]]

(***************************************************************************)
(* The listening socket.  Socket is a collaborator outside src/: bind and   *)
(* listen report success or failure, close is idempotent, and accept        *)
(* returns nothing once the socket is closed.  A socket that is already     *)
(* bound cannot be bound again.                                             *)
(***************************************************************************)
BindResults(s) == IF s \in {"unbound", "closed"} THEN BOOLEAN ELSE {FALSE}
ListenResults(s) == IF s \in {"bound", "listening"} THEN BOOLEAN ELSE {FALSE}

\* BaseStreamServer::serverBind, with `ok` the result of Socket::bind.
serverBind(s, ok) == IF ok THEN "bound" ELSE s

\* BaseStreamServer::serverActivate, with `ok` the result of Socket::listen.
serverActivate(s, ok) == IF ok THEN "listening" ELSE s

\* BaseStreamServer::serverClose.
serverClose(s) == "closed"

\* The bind / activate prologue shared by start() (lines 188-195) and
\* serveForever() (lines 168-175): the socket afterwards, the calls made on
\* it, and whether the prologue succeeded.
Prologue(s, bok, lok) ==
    IF ~bok
    THEN [sock |-> serverClose(serverBind(s, FALSE)),
          ops |-> <<"bind", "close">>, ok |-> FALSE]
    ELSE IF ~lok
         THEN [sock |-> serverClose(serverActivate(serverBind(s, TRUE), FALSE)),
               ops |-> <<"bind", "listen", "close">>, ok |-> FALSE]
         ELSE [sock |-> serverActivate(serverBind(s, TRUE), TRUE),
               ops |-> <<"bind", "listen">>, ok |-> TRUE]

\* start() guarded by the started event alone.
StartGuardStartedOnly == started

\* The guard of start() (line 185).
StartGuard == started \/ HasServe

\* BaseStreamServer::start (lines 181-198); it has no suspension point.
start ==
    /\ ~Busy
    /\ ncalls < MaxCalls
    /\ ncalls' = ncalls + 1
    /\ IF StartGuard
       THEN /\ call' = [op |-> "start", ret |-> "true", ops |-> <<>>, spawn |-> FALSE]
            /\ UNCHANGED <<sock, pc>>
       ELSE \E bok \in BindResults(sock) :
            \E lok \in ListenResults(serverBind(sock, bok)) :
              LET p == Prologue(sock, bok, lok) IN
              /\ sock' = p.sock
              /\ call' = [op |-> "start", ops |-> p.ops, spawn |-> p.ok,
                          ret |-> IF p.ok THEN "true" ELSE "false"]
              /\ pc' = IF p.ok THEN [pc EXCEPT !["serve"] = "spawned"] ELSE pc
    /\ UNCHANGED <<rh, started, stopped, req, tried, lastExit, conn, accepted,
                   yielded, secure, runRet>>

\* stop() that also cancels the connection tasks in flight and flips the
\* events itself.
stopKillsTasks ==
    /\ ~Busy
    /\ ncalls < MaxCalls
    /\ ncalls' = ncalls + 1
    /\ sock' = serverClose(sock)
    /\ call' = [op |-> "stop", ret |-> "void", ops |-> <<"close">>,
                 spawn |-> FALSE]
    /\ conn' = [c \in Conns |->
                 IF conn[c].st \in {"spawned", "processing"}
                 THEN [conn[c] EXCEPT !.st = "finished", !.how = "cancel",
                                      !.exit = "returned"]
                 ELSE conn[c]]
    /\ UNCHANGED <<rh, started, stopped, pc, req, tried, lastExit, accepted,
                   yielded, secure, runRet>>

\* BaseStreamServer::stop (lines 201-204).
stop ==
    /\ ~Busy
    /\ ncalls < MaxCalls
    /\ ncalls' = ncalls + 1
    /\ sock' = serverClose(sock)
    /\ call' = [op |-> "stop", ret |-> "void", ops |-> <<"close">>,
                 spawn |-> FALSE]
    /\ UNCHANGED <<rh, started, stopped, pc, req, tried, lastExit, conn, accepted,
                   yielded, secure, runRet>>

\* BaseStreamServer::serveForever (lines 165-178), up to its call of
\* d->serveForever(); the caller's task then runs the accept loop itself.
serveForever ==
    /\ ~Busy
    /\ pc["main"] = "idle"
    /\ ncalls < MaxCalls
    /\ ncalls' = ncalls + 1
    /\ \E bok \in BindResults(sock) :
       \E lok \in ListenResults(serverBind(sock, bok)) :
         LET p == Prologue(sock, bok, lok) IN
         /\ sock' = p.sock
         /\ call' = [op |-> "serveForever", ops |-> p.ops, spawn |-> FALSE,
                     ret |-> IF p.ok THEN "pending" ELSE "false"]
         /\ runRet' = IF p.ok THEN "pending" ELSE "false"
         /\ pc' = IF p.ok THEN [pc EXCEPT !["main"] = "set_started"] ELSE pc
    /\ UNCHANGED <<rh, started, stopped, req, tried, lastExit, conn, accepted,
                   yielded, secure>>

(***************************************************************************)
(* BaseStreamServerPrivate::serveForever (lines 121-146), one action per    *)
(* statement, run by the "serve" task or by the caller of the blocking      *)
(* serveForever().                                                          *)
(***************************************************************************)

\* The scheduler starts the task spawned at line 196.
ServeScheduled ==
    /\ ~Busy
    /\ pc["serve"] = "spawned"
    /\ pc' = [pc EXCEPT !["serve"] = "set_started"]
    /\ UNCHANGED <<rh, started, stopped, sock, req, tried, lastExit, conn, accepted,
                   yielded, secure, call, runRet, ncalls>>

\* Line 124: q->started->set().
SetStarted(r) ==
    /\ pc[r] = "set_started"
    /\ started' = TRUE
    /\ pc' = [pc EXCEPT ![r] = "clear_stopped"]
    /\ UNCHANGED <<rh, stopped, sock, req, tried, lastExit, conn, accepted, yielded,
                   secure, call, runRet, ncalls>>

\* A loop entry that leaves stopped as it found it: what line 125 rules out.
ClearStoppedOmitted(r) ==
    /\ pc[r] = "clear_stopped"
    /\ pc' = [pc EXCEPT ![r] = "accept"]
    /\ tried' = [tried EXCEPT ![r] = <<>>]
    /\ UNCHANGED <<rh, started, stopped, sock, req, lastExit, conn, accepted,
                   yielded, secure, call, runRet, ncalls>>

\* Line 125: q->stopped->clear(); the loop then blocks in getRequest().
ClearStopped(r) ==
    /\ pc[r] = "clear_stopped"
    /\ stopped' = FALSE
    /\ pc' = [pc EXCEPT ![r] = "accept"]
    /\ tried' = [tried EXCEPT ![r] = <<>>]
    /\ UNCHANGED <<rh, started, sock, req, lastExit, conn, accepted, yielded, secure,
                   call, runRet, ncalls>>

\* Handshake outcomes of a raw socket: SslSocket::handshake(true) returns true,
\* returns false, or does not return.  A plain server performs no handshake.
Handshakes == IF secure THEN {"ok", "fail", "stall"} ELSE {"none"}

\* getRequest(): Socket::accept() returns a socket (lines 248-250, 316-318).
\* The plain server returns it; the secure server starts the handshake.
AcceptConn(r) ==
    /\ ~Busy
    /\ pc[r] = "accept"
    /\ sock = "listening"
    /\ accepted < MaxConns
    /\ accepted' = accepted + 1
    /\ \E h \in Handshakes :
         conn' = [conn EXCEPT ![accepted + 1] =
                    [NoConn EXCEPT !.hs = h,
                                   !.st = IF secure THEN "raw" ELSE "yielded"]]
    /\ req' = [req EXCEPT ![r] = accepted + 1]
    /\ tried' = [tried EXCEPT ![r] = Append(@, accepted + 1)]
    /\ yielded' = IF secure THEN yielded ELSE Append(yielded, accepted + 1)
    /\ pc' = [pc EXCEPT ![r] = IF secure THEN "handshake" ELSE "verify"]
    /\ UNCHANGED <<rh, started, stopped, sock, lastExit, secure, call, runRet, ncalls>>

\* getRequest() giving up (returning none) when the handshake fails.
AfterHandshakeGivesUp(h) == IF h = "ok" THEN "verify" ELSE "close"

\* Lines 319-322: where BaseSslStreamServer::getRequest goes when
\* handshake(true) returned `h`: it returns the connection to the loop
\* (line 322), or accepts again (line 320: continue).
AfterHandshake(h) == IF h = "ok" THEN "verify" ELSE "accept"

\* Lines 319-322: the handshake of the raw socket ends.
Handshake(r) ==
    /\ ~Busy
    /\ pc[r] = "handshake"
    /\ conn[req[r]].hs \in {"ok", "fail"}
    /\ LET to == AfterHandshake(conn[req[r]].hs) IN
       /\ pc' = [pc EXCEPT ![r] = to]
       /\ conn' = [conn EXCEPT ![req[r]].st =
                     IF to = "verify" THEN "yielded" ELSE "dropped"]
       /\ yielded' = IF to = "verify" THEN Append(yielded, req[r]) ELSE yielded
       /\ req' = IF to = "verify" THEN req ELSE [req EXCEPT ![r] = 0]
    /\ UNCHANGED <<rh, started, stopped, sock, tried, lastExit, accepted, secure,
                   call, runRet, ncalls>>

\* getRequest() returns none: Socket::accept() returned nothing because the
\* listening socket is closed (lines 251-252, 323-324); line 128 breaks.
AcceptClosed(r) ==
    /\ ~Busy
    /\ pc[r] = "accept"
    /\ sock # "listening"
    /\ req' = [req EXCEPT ![r] = 0]
    /\ pc' = [pc EXCEPT ![r] = "close"]
    /\ tried' = [tried EXCEPT ![r] = Append(@, 0)]
    /\ UNCHANGED <<rh, started, stopped, sock, lastExit, conn, accepted,
                   yielded, secure, call, runRet, ncalls>>

\* getRequest() returns none: Socket::accept() failed on an open socket.
AcceptError(r) ==
    /\ ~Busy
    /\ pc[r] = "accept"
    /\ sock = "listening"
    /\ req' = [req EXCEPT ![r] = 0]
    /\ pc' = [pc EXCEPT ![r] = "close"]
    /\ tried' = [tried EXCEPT ![r] = Append(@, 0)]
    /\ UNCHANGED <<rh, started, stopped, sock, lastExit, conn, accepted,
                   yielded, secure, call, runRet, ncalls>>

\* A rejected connection closed without the shutdownRequest() hook.
DispatchNoShutdown(cr, admit) ==
    IF admit
    THEN [cr EXCEPT !.st = "spawned"]
    ELSE [cr EXCEPT !.st = "rejected", !.log = @ \o <<"closeRequest">>]

\* A loop that lets go of a connection verifyRequest() refused without
\* dispatching it: lines 135-136 left out.
DispatchForgetsRejected(cr, admit) ==
    IF admit THEN [cr EXCEPT !.st = "spawned"] ELSE cr

\* Lines 131-138 for a connection whose verifyRequest() returned `admit`:
\* spawn a task for handleRequest, or shutdownRequest and closeRequest.
Dispatch(cr, admit) ==
    IF admit
    THEN [cr EXCEPT !.st = "spawned"]
    ELSE [cr EXCEPT !.st = "rejected",
                    !.log = @ \o <<"shutdownRequest", "closeRequest">>]

\* Lines 131-138.
Verify(r) ==
    /\ pc[r] = "verify"
    /\ \E admit \in BOOLEAN :
         conn' = [conn EXCEPT ![req[r]] = Dispatch(@, admit)]
    /\ pc' = [pc EXCEPT ![r] = "service"]
    /\ UNCHANGED <<rh, started, stopped, sock, req, tried, lastExit, accepted,
                   yielded, secure, call, runRet, ncalls>>

\* A break at line 140 that leaves serveForever() at once, without lines
\* 143-145.
AfterServiceSkipsExit(go) == IF go THEN "accept" ELSE "idle"

\* The position after serviceActions() (line 139) returned `go`.
AfterService(go) == IF go THEN "accept" ELSE "close"

\* Lines 139-141: serviceActions() returns.
Service(r) ==
    /\ pc[r] = "service"
    /\ \E go \in BOOLEAN : pc' = [pc EXCEPT ![r] = AfterService(go)]
    /\ req' = [req EXCEPT ![r] = 0]
    /\ tried' = [tried EXCEPT ![r] = <<>>]
    /\ UNCHANGED <<rh, started, stopped, sock, lastExit, conn, accepted, yielded,
                   secure, call, runRet, ncalls>>

\* The runner leaves serveForever(): the "serve" task finishes and leaves the
\* group; the blocking serveForever() returns to its caller.
Leave(r, kind) ==
    /\ pc' = [pc EXCEPT ![r] = "idle"]
    /\ lastExit' = [lastExit EXCEPT ![r] = kind]
    /\ req' = [req EXCEPT ![r] = 0]
    /\ tried' = [tried EXCEPT ![r] = <<>>]

\* An exception leaves serveForever(): lines 121-146 hold no try block, so
\* lines 143-145 are skipped.  Here the overridable serviceActions() throws.
ServiceThrows(r) ==
    /\ pc[r] = "service"
    /\ Leave(r, "error")
    /\ runRet' = IF r = "main" THEN "exception" ELSE runRet
    /\ UNCHANGED <<rh, started, stopped, sock, conn, accepted, yielded, secure,
                   call, ncalls>>

\* The runner's task is cancelled while it is suspended in accept() or in the
\* handshake: CoroutineExitException unwinds serveForever().
Cancel(r) ==
    /\ ~Busy
    /\ pc[r] \in {"accept", "handshake"}
    /\ Leave(r, "cancelled")
    /\ runRet' = IF r = "main" THEN "exception" ELSE runRet
    /\ UNCHANGED <<rh, started, stopped, sock, conn, accepted, yielded, secure,
                   call, ncalls>>

\* Line 143: q->serverClose().
Close(r) ==
    /\ pc[r] = "close"
    /\ sock' = serverClose(sock)
    /\ pc' = [pc EXCEPT ![r] = "clear_started"]
    /\ UNCHANGED <<rh, started, stopped, req, tried, lastExit, conn, accepted,
                   yielded, secure, call, runRet, ncalls>>

\* Line 144: q->started->clear().
ClearStarted(r) ==
    /\ pc[r] = "clear_started"
    /\ started' = FALSE
    /\ pc' = [pc EXCEPT ![r] = "set_stopped"]
    /\ UNCHANGED <<rh, stopped, sock, req, tried, lastExit, conn, accepted, yielded,
                   secure, call, runRet, ncalls>>

\* Line 145: q->stopped->set(); serveForever() returns (line 177: true).
SetStopped(r) ==
    /\ pc[r] = "set_stopped"
    /\ stopped' = TRUE
    /\ Leave(r, "normal")
    /\ runRet' = IF r = "main" THEN "true" ELSE runRet
    /\ UNCHANGED <<rh, started, sock, conn, accepted, yielded, secure, call, ncalls>>

(***************************************************************************)
(* BaseStreamServerPrivate::handleRequest (lines 149-162), the body of the  *)
(* task line 132 spawns.  processRequest is overridable: it returns, throws *)
(* or suspends in I/O, where the task can also be cancelled.                *)
(***************************************************************************)

\* handleRequest without its catch (...) block: an ordinary failure escapes.
handleRequestNoCatchAll(how) ==
    CASE how = "return" -> [log |-> <<>>, exit |-> "returned"]
      [] how = "cancel" -> [log |-> <<"shutdownRequest", "closeRequest">>,
                            exit |-> "returned"]
      [] how = "throw"  -> [log |-> <<>>, exit |-> "raised"]

\* handleRequest whose catch (...) block omits line 158: an ordinary failure
\* is contained but handleError is never invoked.
handleRequestSkipsHandleError(how) ==
    CASE how = "return" -> [log |-> <<>>, exit |-> "returned"]
      [] how = "cancel" -> [log |-> <<"shutdownRequest", "closeRequest">>,
                            exit |-> "returned"]
      [] how = "throw"  -> [log |-> <<"shutdownRequest", "closeRequest">>,
                            exit |-> "returned"]

\* What handleRequest does when processRequest ends by `how`: the hooks it
\* invokes (lines 154-161) and whether it returns or lets the exception out.
handleRequest(how) ==
    CASE how = "return" -> [log |-> <<>>, exit |-> "returned"]
      [] how = "cancel" -> [log |-> <<"shutdownRequest", "closeRequest">>,
                            exit |-> "returned"]
      [] how = "throw"  -> [log |-> <<"handleError", "shutdownRequest",
                                      "closeRequest">>,
                            exit |-> "returned"]

\* The connection record after handleRequest ended by `how`.
Finished(cr, how) ==
    [cr EXCEPT !.st = "finished", !.how = how,
               !.log = @ \o handleRequest(how).log,
               !.exit = handleRequest(how).exit]

\* The spawned task starts: line 153 calls processRequest, which returns or
\* throws at once, or suspends.
TaskRun(c) ==
    /\ ~Busy
    /\ conn[c].st = "spawned"
    /\ \/ \E how \in {"return", "throw"} :
            conn' = [conn EXCEPT ![c] =
                       Finished([@ EXCEPT !.log = @ \o <<"processRequest">>], how)]
       \/ conn' = [conn EXCEPT ![c].st = "processing",
                               ![c].log = @ \o <<"processRequest">>]
    /\ UNCHANGED <<rh, started, stopped, sock, pc, req, tried, lastExit, accepted,
                   yielded, secure, call, runRet, ncalls>>

\* processRequest resumes from its suspension and returns or throws, or the
\* task is cancelled there (CoroutineExitException).
TaskResume(c) ==
    /\ ~Busy
    /\ conn[c].st = "processing"
    /\ \E how \in {"return", "throw", "cancel"} :
         conn' = [conn EXCEPT ![c] = Finished(@, how)]
    /\ UNCHANGED <<rh, started, stopped, sock, pc, req, tried, lastExit, accepted,
                   yielded, secure, call, runRet, ncalls>>

Next ==
    \/ start
    \/ stop
    \/ serveForever
    \/ ServeScheduled
    \/ \E r \in Runners : SetStarted(r)
    \/ \E r \in Runners : ClearStopped(r)
    \/ \E r \in Runners : AcceptConn(r)
    \/ \E r \in Runners : Handshake(r)
    \/ \E r \in Runners : AcceptClosed(r)
    \/ \E r \in Runners : AcceptError(r)
    \/ \E r \in Runners : Verify(r)
    \/ \E r \in Runners : Service(r)
    \/ \E r \in Runners : ServiceThrows(r)
    \/ \E r \in Runners : Cancel(r)
    \/ \E r \in Runners : Close(r)
    \/ \E r \in Runners : ClearStarted(r)
    \/ \E r \in Runners : SetStopped(r)
    \/ \E c \in Conns : TaskRun(c)
    \/ \E c \in Conns : TaskResume(c)

Spec == Init /\ [][Next]_vars

(***************************************************************************)
(* BaseRequestHandler::run (lines 351-360).  setup(), handle() and finish() *)
(* are overridable: each call returns (ok) or throws.  A position of run()  *)
(* is the call it is about to make: "setup" (line 353), "handle" (line      *)
(* 355), "finish" (line 356, inside the try block), "catch" (the finish()   *)
(* of line 358); run() ends "returned" or "raised".                         *)
(***************************************************************************)

\* run() without the try block: a failure of handle() leaves run() at once.
runNoTry(at, ok) ==
    CASE at = "setup"  -> IF ok THEN "handle" ELSE "raised"
      [] at = "handle" -> IF ok THEN "finish" ELSE "raised"
      [] at = "finish" -> IF ok THEN "returned" ELSE "raised"
      [] at = "catch"  -> IF ok THEN "returned" ELSE "raised"

\* Where run() goes after the call made at position `at` returned (ok) or
\* threw: an exception thrown inside the try block (lines 355-356) enters the
\* catch (...) block; one thrown by setup() or by line 358 leaves run().
run(at, ok) ==
    CASE at = "setup"  -> IF ok THEN "handle" ELSE "raised"
      [] at = "handle" -> IF ok THEN "finish" ELSE "catch"
      [] at = "finish" -> IF ok THEN "returned" ELSE "catch"
      [] at = "catch"  -> IF ok THEN "returned" ELSE "raised"

\* The hook called at a position of run().
HookAt(at) == IF at = "catch" THEN "finish" ELSE at

\* run() of handler h makes the call at position `at`.
Step(h, at) ==
    /\ rh[h].at = at
    /\ \E ok \in BOOLEAN :
         rh' = [rh EXCEPT ![h] =
                  [at |-> run(at, ok),
                   log |-> Append(rh[h].log, [hook |-> HookAt(at), ok |-> ok])]]
    /\ UNCHANGED serverVars

\* Line 353: setup().
setup(h) == Step(h, "setup")

\* Line 355: handle().
handle(h) == Step(h, "handle")

\* Line 356: finish(), after handle() returned.
finish(h) == Step(h, "finish")

\* Line 358: finish(), in the catch (...) block.
catchFinish(h) == Step(h, "catch")

HandlerNext ==
    \/ \E h \in Handlers : setup(h)
    \/ \E h \in Handlers : handle(h)
    \/ \E h \in Handlers : finish(h)
    \/ \E h \in Handlers : catchFinish(h)

\* Handlers running as independent tasks.
HandlerSpec == Init /\ [][HandlerNext]_vars

(***************************************************************************)
(* Properties                                                               *)
(***************************************************************************)

\* The step is a call of the public operation `op`.
Calls(op) == ncalls' = ncalls + 1 /\ call'.op = op

\* Number of times hook `h` was invoked on a connection with hook log `log`.
Count(log, h) == Cardinality({i \in DOMAIN log : log[i] = h})

\* The runners that are executing BaseStreamServerPrivate::serveForever().
ActiveLoops == {r \in Runners : pc[r] \in InServeForever}

\* C1: a start() made while started is set or a task named "serve" is
\* registered returns true, calls neither bind nor listen (nor anything else)
\* on the listening socket, spawns no task, and leaves has("serve") as it was.
C1_IdempotentStart ==
    [][(Calls("start") /\ (started \/ HasServe))
         => /\ call'.ret = "true"
            /\ call'.ops = <<>>
            /\ ~call'.spawn
            /\ pc' = pc
            /\ sock' = sock
            /\ (HasServe => HasServe')]_vars

\* C1 witness: start() was called twice, the second call returned true without
\* touching the socket while the "serve" task of the first was registered.
C1_Witness ==
    /\ ncalls >= 2
    /\ call = [op |-> "start", ret |-> "true", ops |-> <<>>, spawn |-> FALSE]
    /\ HasServe
    /\ sock = "listening"

\* C2: at most one execution of the accept loop is in progress at any time.
C2_AtMostOneLoop == Cardinality(ActiveLoops) <= 1

\* C3: while an accept loop is between its first getRequest() and its exit,
\* started is set and stopped is clear; in particular both hold when a
\* connection is accepted or dispatched.
C3_StartedWhileLoopActive ==
    \A r \in Runners : pc[r] \in InLoop => (started /\ ~stopped)

\* C4: whenever a runner leaves serveForever(), for whatever reason, the
\* listening socket is closed, started is clear and stopped is set.
C4_ShutdownOnEveryExit ==
    [][\A r \in Runners :
         (pc[r] \in InServeForever /\ pc'[r] = "idle")
           => (sock' = "closed" /\ ~started' /\ stopped')]_vars

\* C5: once the handling of a connection has ended (its task finished, or the
\* loop rejected it), closeRequest() has been invoked on it exactly once.
C5_ClosedExactlyOnce ==
    \A c \in Conns :
      conn[c].st \in {"finished", "rejected"}
        => Count(conn[c].log, "closeRequest") = 1

\* C6: a step in which processRequest fails with an ordinary failure ends with
\* handleRequest returning (the failure stays in the task), and changes
\* neither the events, nor the listening socket, nor the position of any
\* accept loop, nor any other connection.
C6_HandlerIsolation ==
    [][\A c \in Conns :
         (conn[c].st \in {"spawned", "processing"}
            /\ conn'[c].st = "finished" /\ conn'[c].how = "throw")
           => /\ conn'[c].exit = "returned"
              /\ started' = started /\ stopped' = stopped
              /\ sock' = sock /\ pc' = pc /\ req' = req
              /\ \A d \in Conns \ {c} : conn'[d] = conn[d]]_vars

\* C6 witness: a connection's processRequest failed, the loop that accepted
\* it is still running on an open socket, and a connection accepted later was
\* processed to a normal return.
C6_Witness ==
    \E c, d \in Conns :
      /\ c < d
      /\ conn[c].st = "finished" /\ conn[c].how = "throw"
      /\ conn[d].st = "finished" /\ conn[d].how = "return"
      /\ started /\ sock = "listening"
      /\ \E r \in Runners : pc[r] = "accept"

\* C7: a connection task cancelled inside processRequest runs shutdownRequest
\* then closeRequest, not handleError, and the cancellation is raised again
\* out of handleRequest.
C7_CancellationPropagates ==
    \A c \in Conns :
      conn[c].how = "cancel"
        => /\ conn[c].log = <<"processRequest", "shutdownRequest", "closeRequest">>
           /\ conn[c].exit = "raised"

\* What the loop does with a rejected connection: shutdownRequest then
\* closeRequest, once each; no task is ever spawned for it and processRequest
\* is never invoked on it; the loop goes on to serviceActions().
RejectedHandling ==
    /\ [](\A c \in Conns :
            conn[c].st = "rejected"
              => /\ conn[c].log = <<"shutdownRequest", "closeRequest">>
                 /\ conn[c].how = "none" /\ conn[c].exit = "none")
    /\ [][\A c \in Conns : conn[c].st = "rejected" => conn'[c] = conn[c]]_vars
    /\ [][\A r \in Runners :
            (pc[r] = "verify" /\ conn'[req[r]].st = "rejected")
              => pc'[r] = "service"]_vars

\* C8 (as stated): a rejected connection never gets a task or processRequest,
\* gets shutdownRequest then closeRequest exactly once each from the loop, and
\* the loop then continues to the next iteration, that is to the next
\* getRequest().
C8_RejectedThenNextIteration ==
    /\ RejectedHandling
    /\ [][\A r \in Runners :
            (pc[r] = "service" /\ conn[req[r]].st = "rejected")
              => pc'[r] = "accept"]_vars

\* C8 (amended): a rejected connection never gets a task or processRequest,
\* gets shutdownRequest then closeRequest exactly once each from the loop, and
\* the loop goes on to serviceActions(); from there it continues to the next
\* getRequest() unless serviceActions() returns false (exit sequence) or fails
\* (the runner leaves the loop).
C8_RejectedNeverSpawned ==
    /\ RejectedHandling
    /\ [][\A r \in Runners :
            (pc[r] = "service" /\ conn[req[r]].st = "rejected")
              => pc'[r] \in {"accept", "close", "idle"}]_vars

\* C8 witness: the loop rejected a connection and is back in getRequest().
C8_Witness ==
    \E c \in Conns, r \in Runners :
      /\ conn[c].st = "rejected"
      /\ conn[c].log = <<"shutdownRequest", "closeRequest">>
      /\ pc[r] = "accept"
      /\ yielded # <<>> /\ yielded[Len(yielded)] = c

\* C9: a start() or serveForever() in which bind or listen fails returns
\* false, ends with close() on the listening socket, spawns no task, runs no
\* accept loop, and leaves started clear and stopped set.
C9_FailureLeavesNeverStarted ==
    [][((Calls("start") \/ Calls("serveForever")) /\ call'.ret = "false")
         => /\ call'.ops # <<>> /\ call'.ops[Len(call'.ops)] = "close"
            /\ ~call'.spawn
            /\ ActiveLoops' = {}
            /\ ~started' /\ stopped']_vars

\* C10: on the secure server, every connection getRequest() returns has a
\* successful handshake and is the first such one the call accepted (all it
\* accepted before failed their handshake); after a failed handshake the call
\* is accepting again; and it returns none only after accept returned nothing.
C10_SecureRetry ==
    secure =>
      /\ \A i \in DOMAIN yielded : conn[yielded[i]].hs = "ok"
      /\ \A r \in Runners :
           LET t == tried[r] IN
           /\ pc[r] \in {"accept", "handshake"}
                => \A i \in 1..(Len(t) - 1) : t[i] # 0 /\ conn[t[i]].hs = "fail"
           /\ pc[r] = "accept"
                => \A i \in DOMAIN t : t[i] # 0 /\ conn[t[i]].hs = "fail"
           /\ pc[r] = "verify"
                => /\ t # <<>> /\ t[Len(t)] = req[r]
                   /\ conn[req[r]].hs = "ok"
                   /\ \A i \in 1..(Len(t) - 1) :
                        t[i] # 0 /\ conn[t[i]].hs = "fail"
           /\ (pc[r] = "close" /\ t # <<>>)
                => /\ t[Len(t)] = 0
                   /\ \A i \in 1..(Len(t) - 1) :
                        t[i] # 0 /\ conn[t[i]].hs = "fail"

\* C10 witness: a getRequest() call on the secure server accepted a connection
\* whose handshake failed, accepted again, and returned the second one.
C10_Witness ==
    /\ secure
    /\ \E r \in Runners :
         /\ pc[r] = "verify"
         /\ Len(tried[r]) = 2
         /\ conn[tried[r][1]].hs = "fail"
         /\ req[r] = tried[r][2]

(***************************************************************************)
(* Scheduling.  The coroutine scheduler runs every task that can run: a     *)
(* spawned task is started, a statement that follows a statement is         *)
(* executed, a blocked accept() returns once the socket is closed or a      *)
(* client is waiting, and a handshake whose peer answers ends.  Nothing     *)
(* makes a client's handshake end (a "stall"), makes a suspended            *)
(* processRequest resume, or makes the application call start() or stop().  *)
(***************************************************************************)
Fairness ==
    /\ WF_vars(ServeScheduled)
    /\ \A r \in Runners :
         /\ WF_vars(SetStarted(r))
         /\ WF_vars(ClearStopped(r))
         /\ WF_vars(AcceptConn(r))
         /\ WF_vars(AcceptClosed(r))
         /\ WF_vars(Handshake(r))
         /\ WF_vars(Verify(r))
         /\ WF_vars(Service(r) \/ ServiceThrows(r))
         /\ WF_vars(Close(r))
         /\ WF_vars(ClearStarted(r))
         /\ WF_vars(SetStopped(r))
    /\ \A c \in Conns : WF_vars(TaskRun(c))

FairSpec == Spec /\ Fairness

\* The server is stopped: started clear, stopped set, listening socket closed.
Stopped == ~started /\ stopped /\ sock = "closed"

\* C11: once stop() was called while an accept loop was running, and as long
\* as no other public call follows it, the server eventually is stopped:
\* started clear, stopped set, listening socket closed.
C11_StopEventuallyStops ==
    (call.op = "stop" /\ started /\ ActiveLoops # {})
      ~> (Stopped \/ call.op # "stop")

\* C12: a stop() step closes the listening socket and nothing else: it makes
\* the one call close() on the socket, changes no connection and no connection
\* task, neither event, and no loop position; a connection task in flight
\* after stop() can still take its next step.
C12_StopLeavesConnectionsAlone ==
    /\ [][Calls("stop")
            => /\ sock' = "closed" /\ call'.ops = <<"close">>
               /\ conn' = conn
               /\ started' = started /\ stopped' = stopped
               /\ pc' = pc /\ req' = req]_vars
    /\ [](\A c \in Conns :
            (call.op = "stop" /\ ~Busy)
              => /\ conn[c].st = "spawned" => ENABLED TaskRun(c)
                 /\ conn[c].st = "processing" => ENABLED TaskResume(c))

\* C12 witness: stop() was the last call, the listening socket is closed, one
\* connection's task is still suspended in processRequest and can resume, and
\* another one finished by a normal return.
C12_Witness ==
    /\ call.op = "stop"
    /\ sock = "closed"
    /\ \E c, d \in Conns :
         /\ conn[c].st = "processing" /\ ENABLED TaskResume(c)
         /\ conn[d].st = "finished" /\ conn[d].how = "return"

\* The calls of `hook` in a handler's log, and whether a call of it failed.
HookCalls(log, hook) == {i \in DOMAIN log : log[i].hook = hook}
HookFailed(log, hook) == \E i \in HookCalls(log, hook) : ~log[i].ok

\* C13: a run() that has ended called setup() first; if setup() returned it
\* then called handle() and after it finish(), whether handle() returned or
\* failed; and a failure of handle() leaves run() only if finish() failed too.
C13_RunGuaranteesCleanup ==
    \A h \in Handlers :
      LET log == rh[h].log IN
      rh[h].at \in {"returned", "raised"}
        => /\ log[1].hook = "setup"
           /\ log[1].ok
                => /\ Len(log) >= 3
                   /\ log[2].hook = "handle"
                   /\ log[3].hook = "finish"
           /\ (HookFailed(log, "handle") /\ ~HookFailed(log, "finish"))
                => rh[h].at = "returned"

\* C13 witness: a run() in which handle() failed, finish() was then called
\* and returned, and run() returned normally.
C13_Witness ==
    \E h \in Handlers :
      /\ rh[h].at = "returned"
      /\ rh[h].log = <<[hook |-> "setup", ok |-> TRUE],
                       [hook |-> "handle", ok |-> FALSE],
                       [hook |-> "finish", ok |-> TRUE]>>

\* C20: a call of run() invokes finish() at most once, and exactly once when
\* it has ended and setup() had returned.
C20_FinishAtMostOnce ==
    \A h \in Handlers :
      LET n == Cardinality(HookCalls(rh[h].log, "finish")) IN
      /\ n <= 1
      /\ (rh[h].at \in {"returned", "raised"} /\ rh[h].log[1].ok) => n = 1

\* C14 (as stated): started and stopped are never both set, in any reachable
\* state.
C14_NeverBothSet == ~(started /\ stopped)

\* C14 (amended): started and stopped are both set only while a loop runner
\* stands between line 124 and line 125, where no other coroutine runs; at
\* every point where a caller or another coroutine can observe the events,
\* they are not both set.
C14_BothSetOnlyBetween124And125 ==
    (started /\ stopped) => \E r \in Runners : pc[r] = "clear_stopped"

\* Both events have gone through a whole cycle: one runner has left its loop
\* and the other is blocked in accept with started set and stopped clear.
C14_Witness ==
    /\ started /\ ~stopped
    /\ \E r, q \in Runners : pc[r] = "accept" /\ lastExit[q] # "none"

\* C15: when processRequest raises an ordinary failure, handleRequest invokes
\* handleError, then shutdownRequest, then closeRequest on that connection,
\* once each and in that order, and returns; when processRequest returns
\* normally handleError is not invoked.
C15_FailureHooksInOrder ==
    \A c \in Conns :
      /\ conn[c].how = "throw"
           => /\ conn[c].log = <<"processRequest", "handleError",
                                 "shutdownRequest", "closeRequest">>
              /\ conn[c].exit = "returned"
      /\ conn[c].how = "return" => Count(conn[c].log, "handleError") = 0

\* C15 witness: one connection's processRequest failed and its hooks ran, and
\* another connection's processRequest returned normally.
C15_Witness ==
    \E c, d \in Conns :
      /\ conn[c].st = "finished" /\ conn[c].how = "throw"
      /\ Count(conn[c].log, "handleError") = 1
      /\ conn[d].st = "finished" /\ conn[d].how = "return"

\* The states of a connection the loop has dispatched: a task was spawned for
\* it (and may have run), or it was rejected and closed.
Dispatched == {"spawned", "processing", "finished", "rejected"}

\* The connections getRequest() has yielded and the loop has not dispatched.
Undispatched == {c \in Conns : conn[c].st = "yielded"}

\* C16: connections are dispatched in the order getRequest() yielded them;
\* each yielded connection is dispatched exactly once, to at most one task,
\* by the loop that obtained it before that loop calls getRequest() again.
C16_FifoDispatch ==
    /\ [](\A i, j \in DOMAIN yielded : i # j => yielded[i] # yielded[j])
    /\ [](\A c \in Undispatched :
            /\ c = yielded[Len(yielded)]
            /\ \E r \in Runners : pc[r] = "verify" /\ req[r] = c)
    /\ [][\A c \in Conns :
            (conn[c].st = "yielded" /\ conn'[c].st # "yielded")
              => /\ conn'[c].st \in {"spawned", "rejected"}
                 /\ \A i \in DOMAIN yielded :
                      yielded[i] # c => conn[yielded[i]].st \in Dispatched]_vars
    /\ [][\A c \in Conns :
            conn[c].st \in Dispatched
              => /\ conn'[c].st \in Dispatched
                 /\ conn[c].st # "spawned" => conn'[c].st # "spawned"]_vars

\* C16 witness: two connections were yielded and dispatched in order, and the
\* task of the second finished while the task of the first has not.
C16_Witness ==
    /\ Len(yielded) = 2
    /\ conn[yielded[1]].st \in {"spawned", "processing"}
    /\ conn[yielded[2]].st = "finished"

\* The positions of the exit sequence, lines 143-145.
ExitSequence == {"close", "clear_started", "set_stopped"}

\* C17: serviceActions() is called once after each iteration that obtained a
\* connection, that connection being dispatched by then, and never after
\* getRequest() returned none; when it returns, the loop either calls
\* getRequest() again or enters the exit sequence, which then closes the
\* listening socket, clears started and sets stopped without calling
\* getRequest() again (it leaves the loop otherwise only by throwing).
C17_ServiceActionsGates ==
    /\ [](\A r \in Runners :
            pc[r] = "service"
              => req[r] # 0 /\ conn[req[r]].st \in Dispatched)
    /\ [][\A r \in Runners :
            /\ (pc[r] = "verify" /\ pc'[r] # "verify") => pc'[r] = "service"
            /\ (pc[r] # "service" /\ pc'[r] = "service") => pc[r] = "verify"
            /\ (pc[r] = "accept" /\ pc'[r] # "accept")
                 => pc'[r] \in {"verify", "handshake", "close", "idle"}
            /\ (pc[r] = "service" /\ pc'[r] # "service")
                 => \/ pc'[r] = "accept"
                    \/ pc'[r] = "close"
                    \/ pc'[r] = "idle" /\ lastExit'[r] = "error"]_vars
    /\ [][\A r \in Runners :
            /\ (pc[r] = "close" /\ pc'[r] # "close")
                 => pc'[r] = "clear_started" /\ sock' = "closed"
            /\ (pc[r] = "clear_started" /\ pc'[r] # "clear_started")
                 => pc'[r] = "set_stopped" /\ ~started'
            /\ (pc[r] = "set_stopped" /\ pc'[r] # "set_stopped")
                 => pc'[r] = "idle" /\ stopped' /\ lastExit'[r] = "normal"]_vars
    /\ [](\A r \in Runners :
            /\ pc[r] = "close" => ENABLED Close(r)
            /\ pc[r] = "clear_started" => ENABLED ClearStarted(r)
            /\ pc[r] = "set_stopped" => ENABLED SetStopped(r))

\* C17 witness: serviceActions() returned false after an iteration that
\* rejected its connection, and the loop stands at the exit sequence with the
\* listening socket still open and without having called getRequest() again.
C17_Witness ==
    \E r \in Runners :
      /\ pc[r] = "close" /\ tried[r] = <<>>
      /\ sock = "listening"
      /\ \E c \in Conns : conn[c].st = "rejected"

\* C18: on the secure server, while the listening socket stays open and the
\* loop is not ended, a client whose handshake fails or never completes does
\* not keep the loop from accepting a connection that arrives after it: the
\* loop that accepted client n eventually accepts a later one.
C18_BadClientCannotStall ==
    \A r \in Runners : \A n \in Conns :
      (/\ secure /\ n < MaxConns
       /\ pc[r] = "handshake" /\ req[r] = n /\ conn[n].hs # "ok"
       /\ sock = "listening")
        ~> (accepted > n \/ sock # "listening" \/ pc[r] \notin InLoop)

\* The steps of the program when Socket::accept() never fails on an open
\* listening socket: every step of Next but AcceptError.
NextAcceptNeverFails ==
    \/ start
    \/ stop
    \/ serveForever
    \/ ServeScheduled
    \/ \E r \in Runners : SetStarted(r)
    \/ \E r \in Runners : ClearStopped(r)
    \/ \E r \in Runners : AcceptConn(r)
    \/ \E r \in Runners : Handshake(r)
    \/ \E r \in Runners : AcceptClosed(r)
    \/ \E r \in Runners : Verify(r)
    \/ \E r \in Runners : Service(r)
    \/ \E r \in Runners : ServiceThrows(r)
    \/ \E r \in Runners : Cancel(r)
    \/ \E r \in Runners : Close(r)
    \/ \E r \in Runners : ClearStarted(r)
    \/ \E r \in Runners : SetStopped(r)
    \/ \E c \in Conns : TaskRun(c)
    \/ \E c \in Conns : TaskResume(c)

FairSpecAcceptNeverFails ==
    Init /\ [][NextAcceptNeverFails]_vars /\ Fairness

\* C19: when the last public call made is a start() that returned true (so no
\* stop() follows it) and accept never fails on an open listening socket,
\* started eventually is set and stays set.
C19_StartTrueMeansRunning ==
    <>[]((call.op = "start" /\ call.ret = "true") => started)
====
